---- MODULE Spec2Model ----
(***************************************************************************)
(* Model of src/arvados_platform.py: the ArvadosPlatform adapter and the   *)
(* ArvadosTask handle.  The remote Arvados API (collections, workflows,    *)
(* groups, container requests, containers) is the environment: its stores  *)
(* are variables, a list call returns the matching records in store order, *)
(* and a create call appends one record.  Python strings that the code     *)
(* parses (paths, workflow names, the runner log) are sequences of         *)
(* one-character strings, so that split / startswith / join / re.search    *)
(* are computed and not assumed.                                           *)
(***************************************************************************)
EXTENDS FiniteSets, Integers, Sequences, TLC

VARIABLES
    op,            \* name of the last adapter operation called ("init" at start)
    args,          \* its arguments
    ret,           \* its return value (tagged record), NoReturn when it raised
    exc,           \* the exception that escaped it, "none" when it returned
    task,          \* the caller's ArvadosTask handle (container_request, container)
    containers,    \* remote containers: uuid -> [exit_code, state]
    nqueries,      \* get_task_state calls made on the current handle (capped)
    collections,   \* remote collections, in store order
    workflows,     \* remote workflows, in store order
    prev,          \* the call before the last one (op, args, ret, exc, created)
    created,       \* uuids of the remote records the last call created
    ncalls,        \* number of adapter calls made (capped by MaxCalls)
    env            \* remote state read by the lookup operations (fixed per run)

vars == <<op, args, ret, exc, task, containers, nqueries, collections,
          workflows, prev, created, ncalls, env>>

(***************************************************************************)
(* Python values                                                           *)
(***************************************************************************)
None == [tag |-> "None"]
NoReturn == [tag |-> "raised"]
StrVal(s) == [tag |-> "str", v |-> s]
RecVal(r) == [tag |-> "rec", v |-> r]

(***************************************************************************)
(* Strings as sequences of characters                                      *)
(***************************************************************************)
\* str.startswith(prefix)
StartsWith(s, prefix) ==
    /\ Len(s) >= Len(prefix)
    /\ SubSeq(s, 1, Len(prefix)) = prefix

\* index of the first occurrence of character c in s at or after i, 0 if none
RECURSIVE FindChar(_, _, _)
FindChar(s, c, i) ==
    IF i > Len(s) THEN 0
    ELSE IF s[i] = c THEN i
    ELSE FindChar(s, c, i + 1)

\* str.split(c): always at least one piece, empty pieces kept
RECURSIVE Split(_, _)
Split(s, c) ==
    LET i == FindChar(s, c, 1) IN
    IF i = 0 THEN <<s>>
    ELSE <<SubSeq(s, 1, i - 1)>> \o Split(SubSeq(s, i + 1, Len(s)), c)

\* c.join(pieces)
RECURSIVE Join(_, _)
Join(pieces, c) ==
    IF Len(pieces) = 0 THEN <<>>
    ELSE IF Len(pieces) = 1 THEN pieces[1]
    ELSE pieces[1] \o <<c>> \o Join(Tail(pieces), c)

\* list(filter(None, pieces)): the non-empty pieces, in order
RECURSIVE FilterNonEmpty(_)
FilterNonEmpty(pieces) ==
    IF Len(pieces) = 0 THEN <<>>
    ELSE IF Len(pieces[1]) = 0 THEN FilterNonEmpty(Tail(pieces))
    ELSE <<pieces[1]>> \o FilterNonEmpty(Tail(pieces))

\* the items of a store sequence at the positions in keep, in store order:
\* what a list call with filters returns
RECURSIVE PickSeq(_, _, _)
PickSeq(s, keep, i) ==
    IF i > Len(s) THEN <<>>
    ELSE IF i \in keep THEN <<s[i]>> \o PickSeq(s, keep, i + 1)
    ELSE PickSeq(s, keep, i + 1)

(***************************************************************************)
(* Task lifecycle: submit_task, get_task_state                             *)
(***************************************************************************)
MaxQueries == 2       \* the query counter stops counting here
NullCode == 0 - 1     \* JSON null exit_code: equal to no integer exit code
ExitCodes == {NullCode, 0, 1, 2}
ContainerStates == {"Queued", "Locked", "Running", "Complete", "Cancelled"}
TaskStates == {"Queued", "Running", "Complete", "Failed", "Cancelled"}

U1 == <<"u", "1">>
U2 == <<"u", "2">>
CtrA == "ctrA"
CtrGone == "ctrGone"

\* the container requests the runner can have created: U1 has a container,
\* U2 names a container the API no longer serves
ContainerRequests ==
    { [uuid |-> U1, container_uuid |-> CtrA],
      [uuid |-> U2, container_uuid |-> CtrGone] }

\* what arvados-cwl-runner can print (stdout and stderr combined)
RunnerLogs ==
    { <<"u", "1", "\n">>,
      <<"w", "\n", "u", "1", "\n">>,
      <<"u", "2", "\n", "\n">>,
      <<"u", "1", "\n", "w">>,
      <<"\n">>,
      <<>> }

\* where a submission can fail
SubmitOutcomes == {"ok", "tmpfile_ioerror", "write_ioerror", "launch_ioerror", "nonzero_exit"}

\* list(filter(None, runner_log.split("\n")))
RunnerLines(runner_log) == FilterNonEmpty(Split(runner_log, "\n"))

\* ArvadosTask(container_request, container)
ArvadosTask(container_request, container) ==
    [tag |-> "Task", container_request |-> container_request, container |-> container]

\* the if-chain of get_task_state on the execution record
DeriveState_StateFirst(container) ==
    IF container.state = "Running" THEN [ret |-> StrVal("Running"), exc |-> "none"]
    ELSE IF container.state = "Cancelled" THEN [ret |-> StrVal("Cancelled"), exc |-> "none"]
    ELSE IF container.state \in {"Locked", "Queued"} THEN [ret |-> StrVal("Queued"), exc |-> "none"]
    ELSE IF container.exit_code = 0 THEN [ret |-> StrVal("Complete"), exc |-> "none"]
    ELSE IF container.exit_code = 1 THEN [ret |-> StrVal("Failed"), exc |-> "none"]
    ELSE [ret |-> NoReturn, exc |-> "UnknownTaskState"]

DeriveState(container) ==
    IF container.exit_code = 0 THEN [ret |-> StrVal("Complete"), exc |-> "none"]
    ELSE IF container.exit_code = 1 THEN [ret |-> StrVal("Failed"), exc |-> "none"]
    ELSE IF container.state = "Running" THEN [ret |-> StrVal("Running"), exc |-> "none"]
    ELSE IF container.state = "Cancelled" THEN [ret |-> StrVal("Cancelled"), exc |-> "none"]
    ELSE IF container.state \in {"Locked", "Queued"} THEN [ret |-> StrVal("Queued"), exc |-> "none"]
    ELSE [ret |-> NoReturn, exc |-> "UnknownTaskState"]

\* container_requests().get(uuid=...): the record, or ApiError when unknown
CrGet(uuid) ==
    IF \E cr \in ContainerRequests : cr.uuid = uuid
    THEN [ok |-> TRUE, v |-> CHOOSE cr \in ContainerRequests : cr.uuid = uuid]
    ELSE [ok |-> FALSE, v |-> None]

\* containers().get(uuid=...): the record, or ApiError when unknown
ContainerGet(uuid) ==
    IF uuid \in DOMAIN containers
    THEN [ok |-> TRUE, v |-> [uuid |-> uuid,
                              exit_code |-> containers[uuid].exit_code,
                              state |-> containers[uuid].state]]
    ELSE [ok |-> FALSE, v |-> None]

\* the refresh branch: both records re-fetched, in this order; an ApiError
\* from the second fetch leaves the first assignment in place
RefreshTask_KeepContainer(t) ==
    LET cr == CrGet(t.container_request.uuid) IN
    IF ~cr.ok THEN [task |-> t, exc |-> "ApiError"]
    ELSE [task |-> ArvadosTask(cr.v, t.container), exc |-> "none"]

RefreshTask(t) ==
    LET cr == CrGet(t.container_request.uuid) IN
    IF ~cr.ok THEN [task |-> t, exc |-> "ApiError"]
    ELSE LET c == ContainerGet(cr.v.container_uuid) IN
         IF ~c.ok THEN [task |-> ArvadosTask(cr.v, t.container), exc |-> "ApiError"]
         ELSE [task |-> ArvadosTask(cr.v, c.v), exc |-> "none"]

OtherUnchangedTask == UNCHANGED <<collections, workflows, prev, created, ncalls, env>>

\* submit_task(name, project, workflow, parameters)
SubmitTask(outcome, runner_log) ==
    /\ op' = "submit_task"
    /\ args' = [outcome |-> outcome, runner_log |-> runner_log]
    /\ IF outcome \in {"tmpfile_ioerror", "write_ioerror"}
       THEN \* NamedTemporaryFile / open / json.dump are outside the try block
            /\ ret' = NoReturn
            /\ exc' = "IOError"
            /\ UNCHANGED <<task, nqueries>>
       ELSE IF outcome \in {"launch_ioerror", "nonzero_exit"}
       THEN \* except CalledProcessError / except IOError: logged, return None
            /\ ret' = None
            /\ exc' = "none"
            /\ UNCHANGED <<task, nqueries>>
       ELSE IF Len(RunnerLines(runner_log)) = 0
       THEN \* [-1] of an empty list
            /\ ret' = NoReturn
            /\ exc' = "IndexError"
            /\ UNCHANGED <<task, nqueries>>
       ELSE LET lines == RunnerLines(runner_log)
                t == ArvadosTask([uuid |-> lines[Len(lines)]], None)
            IN /\ ret' = t
               /\ exc' = "none"
               /\ task' = t
               /\ nqueries' = 0
    /\ UNCHANGED containers
    /\ OtherUnchangedTask

\* get_task_state(task, refresh)
GetTaskState(refresh) ==
    /\ task.tag = "Task"
    /\ op' = "get_task_state"
    /\ args' = [refresh |-> refresh]
    /\ nqueries' = IF nqueries < MaxQueries THEN nqueries + 1 ELSE nqueries
    /\ LET r == IF refresh THEN RefreshTask(task) ELSE [task |-> task, exc |-> "none"]
       IN /\ task' = r.task
          /\ IF r.exc # "none"
             THEN ret' = NoReturn /\ exc' = r.exc
             ELSE IF r.task.container = None
             THEN \* None['exit_code']
                  ret' = NoReturn /\ exc' = "TypeError"
             ELSE LET d == DeriveState(r.task.container)
                  IN ret' = d.ret /\ exc' = d.exc
    /\ UNCHANGED containers
    /\ OtherUnchangedTask

\* the platform runs, finishes or cancels the container
ContainerStep(exit_code, state) ==
    /\ containers' = [containers EXCEPT ![CtrA] = [exit_code |-> exit_code, state |-> state]]
    /\ UNCHANGED <<op, args, ret, exc, task, nqueries>>
    /\ OtherUnchangedTask

InitCall ==
    /\ op = "init"
    /\ args = None
    /\ ret = None
    /\ exc = "none"
    /\ prev = None
    /\ created = {}
    /\ ncalls = 0

InitTask ==
    /\ InitCall
    /\ task = None
    /\ nqueries = 0
    /\ containers = [u \in {CtrA} |-> [exit_code |-> NullCode, state |-> "Queued"]]
    /\ collections = <<>>
    /\ workflows = <<>>
    /\ env = None

NextTask ==
    \/ \E outcome \in SubmitOutcomes, runner_log \in RunnerLogs : SubmitTask(outcome, runner_log)
    \/ \E refresh \in BOOLEAN : GetTaskState(refresh)
    \/ \E exit_code \in ExitCodes, state \in ContainerStates : ContainerStep(exit_code, state)

SpecTask == InitTask /\ [][NextTask]_vars

(***************************************************************************)
(* Claims about the task lifecycle (checked under SpecTask)                *)
(***************************************************************************)
QueriedContainer == op = "get_task_state" /\ exc \in {"none", "UnknownTaskState"}

\* C1: get_task_state derives its result from (exit_code, state) in priority
\* order: exit_code 0 gives Complete, exit_code 1 gives Failed, then state
\* Running gives Running, Cancelled gives Cancelled, Locked or Queued gives
\* Queued, and every other pair raises the unrecognized-state error.
C1_StatePriority ==
    QueriedContainer =>
        LET ec == task.container.exit_code
            st == task.container.state
        IN /\ ec = 0 => (ret = StrVal("Complete") /\ exc = "none")
           /\ ec = 1 => (ret = StrVal("Failed") /\ exc = "none")
           /\ (ec \notin {0, 1} /\ st = "Running") => (ret = StrVal("Running") /\ exc = "none")
           /\ (ec \notin {0, 1} /\ st = "Cancelled") => (ret = StrVal("Cancelled") /\ exc = "none")
           /\ (ec \notin {0, 1} /\ st \in {"Locked", "Queued"}) => (ret = StrVal("Queued") /\ exc = "none")
           /\ (ec \notin {0, 1} /\ st \notin {"Queued", "Locked", "Running", "Cancelled"})
                 => (ret = NoReturn /\ exc = "UnknownTaskState")

\* a finished container still flagged Running was reported Complete
C1_Witness ==
    /\ QueriedContainer
    /\ task.container.exit_code = 0
    /\ task.container.state = "Running"
    /\ ret = StrVal("Complete")

FirstQuery == op = "get_task_state" /\ nqueries = 1

SubmitOnlyId ==
    (op = "submit_task" /\ exc = "none" /\ ret # None) =>
        /\ ret.container = None
        /\ DOMAIN ret.container_request = {"uuid"}

NoRefreshUnchanged ==
    (op' = "get_task_state" /\ ~args'.refresh) => task' = task

\* C2 as stated: the first query on a submitted task populates the execution
\* record and returns one of the five states whatever refresh is; queries
\* without refresh leave the task unchanged.
C2_Original ==
    /\ [](SubmitOnlyId /\ (FirstQuery => (task.container # None /\ ret.tag = "str" /\ ret.v \in TaskStates)))
    /\ [][NoRefreshUnchanged]_vars

\* C2 (amended): a submitted task carries only its submission identifier; the
\* first query with refresh, when both fetches succeed, populates the
\* execution record and returns one of the five states or raises the
\* unrecognized-state error; the first query without refresh raises and
\* populates nothing; a query without refresh never changes the task.
C2_Lifecycle ==
    /\ [](/\ SubmitOnlyId
          /\ (FirstQuery /\ args.refresh /\ exc # "ApiError") =>
                /\ task.container # None
                /\ \/ (exc = "none" /\ ret.tag = "str" /\ ret.v \in TaskStates)
                   \/ (exc = "UnknownTaskState" /\ ret = NoReturn)
          /\ (FirstQuery /\ ~args.refresh) =>
                (task.container = None /\ exc = "TypeError" /\ ret = NoReturn))
    /\ [][NoRefreshUnchanged]_vars

\* the first query, with refresh, populated the record and returned a state
C2_Witness ==
    /\ FirstQuery
    /\ args.refresh
    /\ task.container # None
    /\ ret.tag = "str"
    /\ ret.v \in TaskStates

\* C7: submit_task returns null and raises nothing whenever the runner exits
\* non-zero or an I/O failure occurs at any step of the submission.
C7_NoPropagation ==
    (op = "submit_task" /\ args.outcome # "ok") => (ret = None /\ exc = "none")

(***************************************************************************)
(* Lookups: get_project, get_project_by_id, get_file_id                    *)
(***************************************************************************)
Http == <<"h", "t", "t", "p">>
Keep == <<"k", "e", "e", "p">>
KeepColon == <<"k", "e", "e", "p", ":">>
NameC1 == <<"c", "1">>
NameKeepsake == <<"k", "e", "e", "p", "s", "a", "k", "e">>
HashH == <<"H">>
HashG == <<"G">>

ProjR == [uuid |-> "pR", name |-> "reference"]
ProjD == [uuid |-> "pD", name |-> "destination"]

\* groups the API can hold
GroupChoices == { <<>>, <<ProjR>>, <<ProjR, ProjD>>, <<ProjD, ProjR>> }

\* the container this process runs in, "none" outside a managed container
CurrentChoices == {"none", "ctrA", "ctrB"}

ReqA1 == [uuid |-> "r1", container_uuid |-> "ctrA", owner_uuid |-> "pR"]
ReqA2 == [uuid |-> "r2", container_uuid |-> "ctrA", owner_uuid |-> "pD"]
ReqB == [uuid |-> "r3", container_uuid |-> "ctrB", owner_uuid |-> "pGone"]

\* container requests the API can hold
RequestChoices == { <<>>, <<ReqA1>>, <<ReqA2, ReqA1>>, <<ReqB>>, <<ReqA1, ReqB>> }

CollC1 == [uuid |-> "k1", owner_uuid |-> "pR", name |-> NameC1, portable_data_hash |-> HashH]
CollC1Dup == [uuid |-> "k2", owner_uuid |-> "pR", name |-> NameC1, portable_data_hash |-> HashG]
CollC1D == [uuid |-> "k3", owner_uuid |-> "pD", name |-> NameC1, portable_data_hash |-> HashG]
CollKeepsake == [uuid |-> "k4", owner_uuid |-> "pR", name |-> NameKeepsake, portable_data_hash |-> HashG]

\* collections the API can hold
LookupCollectionChoices ==
    { <<>>, <<CollC1>>, <<CollC1, CollC1Dup>>, <<CollC1D, CollKeepsake>>,
      <<CollC1Dup, CollC1D, CollC1, CollKeepsake>> }

\* file paths handed to get_file_id
FilePathChoices ==
    { <<"h", "t", "t", "p", ":", "/", "/", "e", "/", "x">>,
      <<"k", "e", "e", "p", ":", "H", "/", "x">>,
      <<"/", "c", "1", "/", "s", "/", "f">>,
      <<"c", "1", "/", "s", "/", "f">>,
      <<"c", "1">>,
      <<"/">>,
      <<>>,
      <<"s", "3", ":", "/", "/", "b", "/", "x">>,
      <<"k", "e", "e", "p", "s", "a", "k", "e", "/", "f">>,
      <<"/", "k", "e", "e", "p", "s", "a", "k", "e", "/", "f">>,
      <<"/", "n", "o", "/", "f">>,
      <<"/", "/", "c", "1", "/", "f">> }

\* where the remote API can refuse a call of get_project
ApiFailures == {"none", "current", "list", "groups"}

\* groups().list(filters=[["uuid", "=", project_id]])["items"]
GroupsById(project_id) ==
    LET Test(g) == g.uuid = project_id IN PickSeq(env.groups, {i \in 1..Len(env.groups) : Test(env.groups[i])}, 1)

\* collections().list(filters=[owner_uuid = project, name = name])["items"]
LookupCollections(owner_uuid, name) ==
    LET Test(c) == c.owner_uuid = owner_uuid /\ c.name = name
    IN PickSeq(env.collections, {i \in 1..Len(env.collections) : Test(env.collections[i])}, 1)

\* get_project_by_id(project_id): the first match or None
GetProjectById(project_id) ==
    LET items == GroupsById(project_id) IN
    IF Len(items) > 0 THEN RecVal(items[1]) ELSE None

\* get_project(): only ApiError is caught
GetProjectResult(fail) ==
    IF fail = "current" \/ env.current = "none"
    THEN [ret |-> None, exc |-> "none"]
    ELSE IF fail = "list"
    THEN [ret |-> None, exc |-> "none"]
    ELSE LET Test(r) == r.container_uuid = env.current
             items == PickSeq(env.requests, {i \in 1..Len(env.requests) : Test(env.requests[i])}, 1)
         IN IF Len(items) = 0
            THEN \* request["items"][0] on an empty list
                 [ret |-> NoReturn, exc |-> "IndexError"]
            ELSE IF fail = "groups"
            THEN [ret |-> None, exc |-> "none"]
            ELSE [ret |-> GetProjectById(items[1].owner_uuid), exc |-> "none"]

\* get_file_id(project, file_path)
GetFileIdResult_HttpOnly(project, file_path) ==
    IF StartsWith(file_path, Http)
    THEN [ret |-> StrVal(file_path), exc |-> "none"]
    ELSE LET split == Split(file_path, "/")
             folder_tree == IF Len(split[1]) = 0 THEN Tail(split) ELSE split
         IN IF Len(folder_tree) = 0
            THEN [ret |-> NoReturn, exc |-> "IndexError"]
            ELSE LET items == LookupCollections(project.uuid, folder_tree[1])
                 IN IF Len(items) > 0
                    THEN [ret |-> StrVal(KeepColon \o items[1].portable_data_hash
                                         \o <<"/">> \o Join(Tail(folder_tree), "/")),
                          exc |-> "none"]
                    ELSE [ret |-> NoReturn, exc |-> "CollectionNotFound"]

GetFileIdResult(project, file_path) ==
    IF StartsWith(file_path, Http) \/ StartsWith(file_path, Keep)
    THEN [ret |-> StrVal(file_path), exc |-> "none"]
    ELSE LET split == Split(file_path, "/")
             folder_tree == IF Len(split[1]) = 0 THEN Tail(split) ELSE split
         IN IF Len(folder_tree) = 0
            THEN \* folder_tree[0] of an empty list
                 [ret |-> NoReturn, exc |-> "IndexError"]
            ELSE LET items == LookupCollections(project.uuid, folder_tree[1])
                 IN IF Len(items) > 0
                    THEN [ret |-> StrVal(KeepColon \o items[1].portable_data_hash
                                         \o <<"/">> \o Join(Tail(folder_tree), "/")),
                          exc |-> "none"]
                    ELSE [ret |-> NoReturn, exc |-> "CollectionNotFound"]

OtherUnchangedLookup ==
    UNCHANGED <<task, containers, nqueries, collections, workflows, prev, created, ncalls, env>>

GetProject(fail) ==
    /\ op' = "get_project"
    /\ args' = [fail |-> fail]
    /\ LET r == GetProjectResult(fail) IN ret' = r.ret /\ exc' = r.exc
    /\ OtherUnchangedLookup

GetProjectByIdCall(project_id) ==
    /\ op' = "get_project_by_id"
    /\ args' = [project_id |-> project_id]
    /\ ret' = GetProjectById(project_id)
    /\ exc' = "none"
    /\ OtherUnchangedLookup

GetFileId(project, file_path) ==
    /\ op' = "get_file_id"
    /\ args' = [project |-> project, file_path |-> file_path]
    /\ LET r == GetFileIdResult(project, file_path) IN ret' = r.ret /\ exc' = r.exc
    /\ OtherUnchangedLookup

InitLookup ==
    /\ InitCall
    /\ task = None
    /\ nqueries = 0
    /\ containers = <<>>
    /\ collections = <<>>
    /\ workflows = <<>>
    /\ \E g \in GroupChoices, cur \in CurrentChoices, rq \in RequestChoices,
          cs \in LookupCollectionChoices :
          env = [groups |-> g, current |-> cur, requests |-> rq, collections |-> cs]

NextLookup ==
    \/ \E fail \in ApiFailures : GetProject(fail)
    \/ \E project_id \in {"pR", "pD", "pGone"} : GetProjectByIdCall(project_id)
    \/ \E project \in {ProjR, ProjD}, file_path \in FilePathChoices : GetFileId(project, file_path)

SpecLookup == InitLookup /\ [][NextLookup]_vars

(***************************************************************************)
(* Claims about the lookups (checked under SpecLookup)                     *)
(***************************************************************************)
NoCurrentContainer == env.current = "none" \/ args.fail = "current"

NoSubmissionRecord ==
    /\ ~NoCurrentContainer
    /\ args.fail # "list"
    /\ \A i \in 1..Len(env.requests) : env.requests[i].container_uuid # env.current

OwnerUnresolved ==
    /\ ~NoCurrentContainer
    /\ args.fail # "list"
    /\ \E i \in 1..Len(env.requests) :
          /\ env.requests[i].container_uuid = env.current
          /\ \A j \in 1..(i - 1) : env.requests[j].container_uuid # env.current
          /\ \A k \in 1..Len(env.groups) : env.groups[k].uuid # env.requests[i].owner_uuid

\* C8: get_project returns null and raises nothing when there is no current
\* container, when no submission record is found for it, or when the owner
\* cannot be resolved.
C8_NotFoundNeverRaises ==
    (op = "get_project" /\ (NoCurrentContainer \/ NoSubmissionRecord \/ OwnerUnresolved))
        => (ret = None /\ exc = "none")

Letters == {"a", "b", "c", "d", "e", "f", "g", "h", "i", "j", "k", "l", "m", "n", "o", "p", "q", "r", "s", "t", "u", "v", "w", "x", "y", "z"}
Digits == {"0", "1", "2", "3", "4", "5", "6", "7", "8", "9"}

\* s starts with a URI scheme: a letter, then letters, digits, + - . and a colon
HasUriScheme(s) ==
    \E i \in 2..Len(s) :
        /\ s[i] = ":"
        /\ s[1] \in Letters
        /\ \A j \in 1..(i - 1) : s[j] \in Letters \cup Digits \cup {"+", "-", "."}

PassedThrough == exc = "none" /\ ret = StrVal(args.file_path)

\* file_path without one leading slash
Unslashed(file_path) ==
    IF Len(file_path) > 0 /\ file_path[1] = "/" THEN Tail(file_path) ELSE file_path

\* the text before the first slash of s, and the text after it
FirstSegment(s) ==
    IF FindChar(s, "/", 1) = 0 THEN s ELSE SubSeq(s, 1, FindChar(s, "/", 1) - 1)

AfterFirstSegment(s) ==
    IF FindChar(s, "/", 1) = 0 THEN <<>> ELSE SubSeq(s, FindChar(s, "/", 1) + 1, Len(s))

\* the collections of that name in the project, as the API lists them
OwnedNamed(project, name) ==
    { i \in 1..Len(env.collections) :
        /\ env.collections[i].owner_uuid = project.uuid
        /\ env.collections[i].name = name }

Resolved(file_path) ==
    LET rest == Unslashed(file_path)
        hits == OwnedNamed(args.project, FirstSegment(rest))
    IN IF hits = {}
       THEN exc # "none" /\ ret = NoReturn
       ELSE LET first == CHOOSE i \in hits : \A j \in hits : i <= j
            IN /\ exc = "none"
               /\ ret = StrVal(KeepColon \o env.collections[first].portable_data_hash
                               \o <<"/">> \o AfterFirstSegment(rest))

MaxCalls == 2         \* adapter calls made in one run

NameD == <<"d">>
NameRefInput == <<"r", "e", "f", "e", "r", "e", "n", "c", "e", "_", "i", "n", "p", "u", "t">>
NameA == <<"A">>
NameAv == <<"A", " ", "(", "v", ")">>
NameAB == <<"A", "B">>
NameB == <<"B">>
NameAny == <<"A", "_">>

\* a file of a collection is addressed by <<stream_name, name>>
FileA == <<".", "a.txt">>
FileB == <<"s", "b.txt">>
FileIn == <<".", "cwl.input.json">>
FileOut == <<"s", "cwl.output.json">>
ReservedNames == {"cwl.input.json", "cwl.output.json"}

K1 == [uuid |-> 1, owner_uuid |-> "pR", name |-> NameD, description |-> "ref d",
       files |-> (FileA :> 1 @@ FileIn :> 1 @@ FileB :> 1)]
K2 == [uuid |-> 2, owner_uuid |-> "pR", name |-> NameRefInput, description |-> "ref in",
       files |-> (FileA :> 2 @@ FileOut :> 2)]
K3 == [uuid |-> 3, owner_uuid |-> "pD", name |-> NameD, description |-> "dst d",
       files |-> (FileA :> 2)]
K4 == [uuid |-> 4, owner_uuid |-> "pD", name |-> NameD, description |-> "dst d bis",
       files |-> (FileOut :> 1)]
K5 == [uuid |-> 5, owner_uuid |-> "pD", name |-> NameRefInput, description |-> "dst in",
       files |-> <<>>]

\* collections the two projects can hold before the first call
CollectionChoices ==
    { <<K1, K2>>, <<K1, K2, K3>>, <<K1, K4, K3>>, <<K2, K5>>, <<K3>> }

W1 == [uuid |-> 11, owner_uuid |-> "pR", name |-> NameAv, definition |-> "cwl A"]
W2 == [uuid |-> 12, owner_uuid |-> "pR", name |-> NameB, definition |-> "cwl B"]
W3 == [uuid |-> 13, owner_uuid |-> "pD", name |-> NameA, definition |-> "cwl A old"]
W4 == [uuid |-> 14, owner_uuid |-> "pD", name |-> NameAB, definition |-> "cwl AB"]
W5 == [uuid |-> 15, owner_uuid |-> "pD", name |-> NameAv, definition |-> "cwl A"]
W6 == [uuid |-> 16, owner_uuid |-> "pR", name |-> NameAny, definition |-> "cwl A_"]

\* workflows the two projects can hold before the first call
WorkflowChoices ==
    { <<W1, W2>>, <<W1, W2, W3>>, <<W6, W4>>, <<W1, W5>>, <<W2, W5, W3>> }

\* reference_folder arguments of copy_folder
FolderChoices == { <<"/", "d", "/", "x">>, <<"d">>, <<"z", "/", "d">> }

\* sets of files whose copy fails with an IOError
IoErrorChoices == { {}, {FileB} }

\* the uuid the API gives the next created record
NewUuid ==
    LET used == {collections[i].uuid : i \in 1..Len(collections)}
                \cup {workflows[i].uuid : i \in 1..Len(workflows)}
    IN 1 + (CHOOSE m \in used \cup {0} : \A u \in used : u <= m)

\* collections().list(filters=[owner_uuid = owner, name = name])["items"]
CollectionsNamed(colls, owner_uuid, name) ==
    LET Test(c) == c.owner_uuid = owner_uuid /\ c.name = name
    IN PickSeq(colls, {i \in 1..Len(colls) : Test(colls[i])}, 1)

\* position in the store of the collection with this uuid
CollectionIndex(colls, uuid) == CHOOSE i \in 1..Len(colls) : colls[i].uuid = uuid

\* the file loop of _copy_files_from_source_dest_collection: the files of the
\* source that end up copied into the target
CopiedFiles_NoFilter(source, target, overwrite, io_errors) ==
    { f \in DOMAIN source :
        /\ f \notin io_errors
        /\ (overwrite \/ f \notin DOMAIN target) }

CopiedFiles(source, target, overwrite, io_errors) ==
    { f \in DOMAIN source :
        /\ f[2] \notin ReservedNames
        /\ f \notin io_errors                        \* IOError: continue
        /\ (overwrite \/ f \notin DOMAIN target) }    \* exists, no overwrite: IOError

\* _copy_files_from_source_dest_collection followed by target.save():
\* the store with the target collection's files updated
CopyFiles(colls, source_uuid, dest_uuid, overwrite, io_errors) ==
    LET source == colls[CollectionIndex(colls, source_uuid)].files
        di == CollectionIndex(colls, dest_uuid)
        target == colls[di].files
        copied == CopiedFiles(source, target, overwrite, io_errors)
        saved == [f \in DOMAIN target \cup copied |->
                     IF f \in copied THEN source[f] ELSE target[f]]
    IN [colls EXCEPT ![di].files = saved]

\* the collection name copy_folder takes from reference_folder
FolderCollectionName(reference_folder) ==
    IF StartsWith(reference_folder, <<"/">>)
    THEN Split(reference_folder, "/")[2]
    ELSE Split(reference_folder, "/")[1]

\* the find-or-create of the destination collection and the file copy, shared
\* by copy_folder and copy_reference_data
FindOrCreateAndCopy_AlwaysCreate(reference_collection, destination_project, name, io_errors) ==
    LET fresh == [uuid |-> NewUuid, owner_uuid |-> destination_project,
                  name |-> name,
                  description |-> reference_collection.description,
                  files |-> <<>>]
    IN [collections |-> CopyFiles(Append(collections, fresh), reference_collection.uuid,
                                  fresh.uuid, FALSE, io_errors),
        destination |-> fresh,
        created |-> {fresh.uuid}]

FindOrCreateAndCopy(reference_collection, destination_project, name, io_errors) ==
    LET found == CollectionsNamed(collections, destination_project, name)
        fresh == [uuid |-> NewUuid, owner_uuid |-> destination_project,
                  name |-> name,
                  description |-> reference_collection.description,
                  files |-> <<>>]
        destination == IF Len(found) > 0 THEN found[1] ELSE fresh
        store == IF Len(found) > 0 THEN collections ELSE Append(collections, fresh)
    IN [collections |-> CopyFiles(store, reference_collection.uuid,
                                  destination.uuid, FALSE, io_errors),
        destination |-> destination,
        created |-> IF Len(found) > 0 THEN {} ELSE {fresh.uuid}]

\* every adapter call records the call before it
Called(name, arguments) ==
    /\ ncalls < MaxCalls
    /\ ncalls' = ncalls + 1
    /\ op' = name
    /\ args' = arguments
    /\ prev' = [op |-> op, args |-> args, ret |-> ret, exc |-> exc, created |-> created]

OtherUnchangedCopy == UNCHANGED <<task, containers, nqueries, env>>

\* _copy_files_from_source_dest_collection(source_coll_uuid, dest_coll_uuid, overwrite)
CopyFilesCall(source_coll_uuid, dest_coll_uuid, overwrite, io_errors) ==
    /\ Called("_copy_files", [source_coll_uuid |-> source_coll_uuid,
                              dest_coll_uuid |-> dest_coll_uuid,
                              overwrite |-> overwrite, io_errors |-> io_errors])
    /\ collections' = CopyFiles(collections, source_coll_uuid, dest_coll_uuid,
                                overwrite, io_errors)
    /\ ret' = None
    /\ exc' = "none"
    /\ created' = {}
    /\ UNCHANGED workflows
    /\ OtherUnchangedCopy

\* copy_folder(reference_project, reference_folder, destination_project)
CopyFolder(reference_project, reference_folder, destination_project, io_errors) ==
    /\ Called("copy_folder", [reference_project |-> reference_project,
                              reference_folder |-> reference_folder,
                              destination_project |-> destination_project,
                              io_errors |-> io_errors])
    /\ LET collection_name == FolderCollectionName(reference_folder)
           refs == CollectionsNamed(collections, reference_project, collection_name)
       IN IF Len(refs) = 0
          THEN /\ ret' = None
               /\ created' = {}
               /\ UNCHANGED collections
          ELSE LET r == FindOrCreateAndCopy(refs[1], destination_project,
                                            collection_name, io_errors)
               IN /\ collections' = r.collections
                  /\ ret' = RecVal(r.destination)
                  /\ created' = r.created
    /\ exc' = "none"
    /\ UNCHANGED workflows
    /\ OtherUnchangedCopy

\* copy_reference_data(reference_project, destination_project): no return
\* statement follows the copy
CopyReferenceData(reference_project, destination_project, io_errors) ==
    /\ Called("copy_reference_data", [reference_project |-> reference_project,
                                      destination_project |-> destination_project,
                                      io_errors |-> io_errors])
    /\ LET refs == CollectionsNamed(collections, reference_project, NameRefInput)
       IN IF Len(refs) = 0
          THEN /\ created' = {}
               /\ UNCHANGED collections
          ELSE LET r == FindOrCreateAndCopy(refs[1], destination_project,
                                            refs[1].name, io_errors)
               IN /\ collections' = r.collections
                  /\ created' = r.created
    /\ ret' = None
    /\ exc' = "none"
    /\ UNCHANGED workflows
    /\ OtherUnchangedCopy

\* re.search(r' \(.*\)$', wf_name).start(): the leftmost " (" of a name that
\* ends with ")" after it, 0 when the pattern does not match
VersionStart(wf_name) ==
    LET starts == { i \in 1..Len(wf_name) :
                      /\ i + 2 <= Len(wf_name)
                      /\ wf_name[i] = " "
                      /\ wf_name[i + 1] = "("
                      /\ wf_name[Len(wf_name)] = ")" }
    IN IF starts = {} THEN 0 ELSE CHOOSE i \in starts : \A j \in starts : i <= j

\* the workflow name with a trailing " (...)" annotation stripped
StripVersion(wf_name) ==
    IF VersionStart(wf_name) = 0 THEN wf_name
    ELSE SubSeq(wf_name, 1, VersionStart(wf_name) - 1)

\* the API's "like" filter: % matches any run of characters, _ any one
RECURSIVE LikeMatch(_, _)
LikeMatch(pattern, s) ==
    IF Len(pattern) = 0 THEN Len(s) = 0
    ELSE IF Head(pattern) = "%"
    THEN \E k \in 0..Len(s) : LikeMatch(Tail(pattern), SubSeq(s, k + 1, Len(s)))
    ELSE IF Len(s) = 0 THEN FALSE
    ELSE IF Head(pattern) = "_" THEN LikeMatch(Tail(pattern), Tail(s))
    ELSE Head(pattern) = Head(s) /\ LikeMatch(Tail(pattern), Tail(s))

\* workflows().list(filters=[owner_uuid = owner])["items"]
WorkflowsOwned(owner_uuid) ==
    LET Test(w) == w.owner_uuid = owner_uuid IN PickSeq(workflows, {i \in 1..Len(workflows) : Test(workflows[i])}, 1)

\* workflows().list(filters=[owner_uuid = owner, name like wf_name%])["items"]
ExistingWorkflows_ExactName(owner_uuid, wf_name) ==
    LET Test(w) == w.owner_uuid = owner_uuid /\ w.name = wf_name
    IN PickSeq(workflows, {i \in 1..Len(workflows) : Test(workflows[i])}, 1)

ExistingWorkflows(owner_uuid, wf_name) ==
    LET Test(w) == w.owner_uuid = owner_uuid /\ LikeMatch(wf_name \o <<"%">>, w.name)
    IN PickSeq(workflows, {i \in 1..Len(workflows) : Test(workflows[i])}, 1)

\* copy_workflow(src_workflow, destination_project)
CopyWorkflow(src_workflow, destination_project) ==
    /\ Called("copy_workflow", [src_workflow |-> src_workflow,
                                destination_project |-> destination_project])
    /\ LET Test(w) == w.uuid = src_workflow
           got == PickSeq(workflows, {i \in 1..Len(workflows) : Test(workflows[i])}, 1)
       IN IF Len(got) = 0
          THEN \* workflows().get raises ApiError: return None
               /\ ret' = None
               /\ created' = {}
               /\ UNCHANGED workflows
          ELSE LET workflow == got[1]
                   wf_name == StripVersion(workflow.name)
                   existing_workflows == ExistingWorkflows(destination_project, wf_name)
                   copied_workflow == [workflow EXCEPT !.owner_uuid = destination_project,
                                                       !.uuid = NewUuid]
               IN IF Len(existing_workflows) > 0
                  THEN /\ ret' = RecVal(existing_workflows[1])
                       /\ created' = {}
                       /\ UNCHANGED workflows
                  ELSE /\ workflows' = Append(workflows, copied_workflow)
                       /\ ret' = RecVal(copied_workflow)
                       /\ created' = {copied_workflow.uuid}
    /\ exc' = "none"
    /\ UNCHANGED collections
    /\ OtherUnchangedCopy

\* the loop of copy_workflows: destination_workflows is the list response (a
\* mapping with an "items" key), so destination_workflows.append fails on the
\* first reference workflow that is missing, before the create call is made
RECURSIVE CopyWorkflowsLoop(_, _, _)
CopyWorkflowsLoop(reference_items, destination_items, i) ==
    IF i > Len(reference_items)
    THEN [ret |-> [tag |-> "listing", items |-> destination_items], exc |-> "none"]
    ELSE IF \A k \in 1..Len(destination_items) :
               destination_items[k].name # reference_items[i].name
    THEN [ret |-> NoReturn, exc |-> "AttributeError"]
    ELSE CopyWorkflowsLoop(reference_items, destination_items, i + 1)

\* copy_workflows(reference_project, destination_project)
CopyWorkflows(reference_project, destination_project) ==
    /\ Called("copy_workflows", [reference_project |-> reference_project,
                                 destination_project |-> destination_project])
    /\ LET r == CopyWorkflowsLoop(WorkflowsOwned(reference_project),
                                  WorkflowsOwned(destination_project), 1)
       IN ret' = r.ret /\ exc' = r.exc
    /\ created' = {}
    /\ UNCHANGED <<collections, workflows>>
    /\ OtherUnchangedCopy

InitCopy ==
    /\ InitCall
    /\ task = None
    /\ nqueries = 0
    /\ containers = <<>>
    /\ env = None
    /\ \E cs \in CollectionChoices, ws \in WorkflowChoices :
          /\ collections = cs
          /\ workflows = ws

ProjectPairs == { <<"pR", "pD">>, <<"pD", "pD">> }

NextCopy ==
    \/ \E i \in 1..Len(collections), j \in 1..Len(collections),
          overwrite \in BOOLEAN, io_errors \in IoErrorChoices :
          /\ i # j
          /\ CopyFilesCall(collections[i].uuid, collections[j].uuid, overwrite, io_errors)
    \/ \E pp \in ProjectPairs, reference_folder \in FolderChoices,
          io_errors \in IoErrorChoices :
          CopyFolder(pp[1], reference_folder, pp[2], io_errors)
    \/ \E pp \in ProjectPairs, io_errors \in IoErrorChoices :
          CopyReferenceData(pp[1], pp[2], io_errors)
    \/ \E src_workflow \in {workflows[i].uuid : i \in 1..Len(workflows)} \cup {99},
          destination_project \in {"pD"} :
          CopyWorkflow(src_workflow, destination_project)
    \/ \E pp \in ProjectPairs : CopyWorkflows(pp[1], pp[2])

Spec == InitCopy /\ [][NextCopy]_vars

(***************************************************************************)
(* Claims about the copy operations (checked under Spec)                   *)
(***************************************************************************)
\* the arguments of a call without the environment's IOError choice
Inputs(a) == [f \in DOMAIN a \ {"io_errors"} |-> a[f]]

\* the last two calls were the same find-or-create operation on the same inputs
SecondOfTwo ==
    /\ ncalls >= 2
    /\ op \in {"copy_folder", "copy_workflow"}
    /\ prev.op = op
    /\ Inputs(prev.args) = Inputs(args)

SameRecord(a, b) ==
    /\ a.tag = b.tag
    /\ a.tag = "rec" =>
          /\ a.v.uuid = b.v.uuid
          /\ a.v.owner_uuid = b.v.owner_uuid
          /\ a.v.name = b.v.name

\* C3: copy_folder and copy_workflow called twice in a row with the same
\* inputs create at most one record over the two calls; the second call
\* creates nothing and returns the record the first call created or found.
C3_Idempotent ==
    SecondOfTwo =>
        /\ created = {}
        /\ Cardinality(prev.created \cup created) <= 1
        /\ exc = "none" /\ prev.exc = "none"
        /\ SameRecord(ret, prev.ret)

\* the first call created a record and the second call returned that record
C3_Witness ==
    /\ SecondOfTwo
    /\ op = "copy_workflow"
    /\ Cardinality(prev.created) = 1
    /\ ret.tag = "rec"
    /\ ret.v.uuid \in prev.created

C3_WitnessFolder ==
    /\ SecondOfTwo
    /\ op = "copy_folder"
    /\ Cardinality(prev.created) = 1
    /\ ret.tag = "rec"
    /\ ret.v.uuid \in prev.created

NamesOf(items) == {items[i].name : i \in 1..Len(items)}

\* the records appended to the workflow store by the step
AddedWorkflows == SubSeq(workflows', Len(workflows) + 1, Len(workflows'))

\* C4: copy_workflows creates one clone owned by the destination project for
\* every reference workflow whose exact name is missing from the destination
\* and returns the original destination items followed by the new records.
C4_CopyWorkflows ==
    [][op' = "copy_workflows" =>
        LET reference == WorkflowsOwned(args'.reference_project)
            destination == WorkflowsOwned(args'.destination_project)
            missing == { i \in 1..Len(reference) :
                           reference[i].name \notin NamesOf(destination) }
        IN /\ exc' = "none"
           /\ Len(workflows') >= Len(workflows)
           /\ SubSeq(workflows', 1, Len(workflows)) = workflows
           /\ Len(AddedWorkflows) = Cardinality(missing)
           /\ \A i \in missing : \E k \in 1..Len(AddedWorkflows) :
                 /\ AddedWorkflows[k].name = reference[i].name
                 /\ AddedWorkflows[k].definition = reference[i].definition
                 /\ AddedWorkflows[k].owner_uuid = args'.destination_project
                 /\ AddedWorkflows[k].uuid # reference[i].uuid
           /\ ret'.items = destination \o AddedWorkflows]_vars

\* C5: copy_reference_data returns null exactly when the reference project
\* has no collection named reference_input, and otherwise returns the
\* same-named collection of the destination project.
C5_ReferenceData ==
    op = "copy_reference_data" =>
        LET refs == CollectionsNamed(collections, args.reference_project, NameRefInput)
        IN /\ ret = None <=> Len(refs) = 0
           /\ Len(refs) > 0 =>
                 /\ ret.tag = "rec"
                 /\ ret.v.owner_uuid = args.destination_project
                 /\ ret.v.name = NameRefInput

\* the files of a collection that carry a reserved name
ReservedOf(files) ==
    [f \in {g \in DOMAIN files : g[2] \in ReservedNames} |-> files[f]]

\* C6 as stated: after _copy_files the destination holds neither reserved
\* file, whatever it held before.
C6_Original ==
    op = "_copy_files" =>
        ReservedOf(collections[CollectionIndex(collections, args.dest_coll_uuid)].files) = <<>>

\* C6 (amended): a call that copies files never adds or changes a file named
\* cwl.input.json or cwl.output.json: every collection holds such a file
\* after the call exactly where it held it before, and a collection created by
\* the call holds none, whatever the source holds.
C6_ReservedNeverCopied ==
    [][op' \in {"_copy_files", "copy_folder", "copy_reference_data"} =>
        /\ \A i \in 1..Len(collections) :
              ReservedOf(collections'[i].files) = ReservedOf(collections[i].files)
        /\ \A i \in (Len(collections) + 1)..Len(collections') :
              ReservedOf(collections'[i].files) = <<>>]_vars

\* files were copied over from a source that holds a reserved file into a
\* destination that holds none
C6_Witness ==
    /\ op = "_copy_files"
    /\ args.source_coll_uuid = 1 /\ args.dest_coll_uuid = 3
    /\ args.overwrite /\ args.io_errors = {}
    /\ LET source == collections[CollectionIndex(collections, 1)].files
           target == collections[CollectionIndex(collections, 3)].files
       IN /\ FileIn \in DOMAIN source
          /\ FileA \in DOMAIN target /\ target[FileA] = source[FileA]
          /\ FileB \in DOMAIN target
          /\ ReservedOf(target) = <<>>

\* no two records of one kind in the project share a name
UniqueNames(project) ==
    /\ \A i, j \in 1..Len(collections) :
          (/\ collections[i].owner_uuid = project
           /\ collections[j].owner_uuid = project
           /\ collections[i].name = collections[j].name) => i = j
    /\ \A i, j \in 1..Len(workflows) :
          (/\ workflows[i].owner_uuid = project
           /\ workflows[j].owner_uuid = project
           /\ workflows[i].name = workflows[j].name) => i = j

====
